---- MODULE Spec2Model ----
(***************************************************************************)
(* UserService (src/src/city/dto/city.dto.ts): the user table, the session *)
(* table, and concurrent requests userCreate / userUpdate / userDelete,    *)
(* each a chain of awaited steps (decorator checks, then the method body). *)
(* Every await is a point where another request may run, so every awaited  *)
(* query is one action.                                                    *)
(***************************************************************************)
EXTENDS Integers, FiniteSets, Sequences, TLC

\* Number of concurrent requests.
NumProcs == 2
\* Callers supply versions 1..MaxVersion.
MaxVersion == 2
\* Ids the autoincrement may hand out (and callers may name).
MaxRows == 3

Procs == 1..NumProcs
Ids == 1..MaxRows
\* The usernames callers supply: one a user has at the start, one nobody has.
Names == {"a", "c"}

\* An absent row; findOne's "no row" result.
NoRow == [username |-> "", version |-> 0]
undefined == [id |-> 0, username |-> "", version |-> 0]

\* No request: the fields of a request that has not started.
NoReq == [kind |-> "none", id |-> 0, version |-> 0, username |-> ""]
NoTx == [state |-> "none", sessions |-> FALSE, user |-> FALSE]

VARIABLES
    users,       \* committed user table: id -> row or NoRow
    sessions,    \* committed session table: user id -> set of session ids
    nextId,      \* the autoincrement of the user table
    pc,          \* where each request is
    req,         \* each request's data argument (the decorators may change it)
    result,      \* what each finished request gave its caller
    tx,          \* userDelete's transaction: state and buffered deletes
    rowAtCheck,  \* history: the row's relation to data.version when OptimisticLocking looked
    nameAtCheck, \* history: who held data.username when CheckIsValueUnique looked
    wrote,       \* history: the request's write reached the table (or its transaction)
    failedAt     \* history: the step of userDelete whose query failed

vars == <<users, sessions, nextId, pc, req, result, tx, rowAtCheck, nameAtCheck, wrote, failedAt>>

\* The sessions each user has when the service starts.
Sessions0(u) == IF u = 1 THEN {"s1", "s2"} ELSE {}

\* The user table when the service starts: two users, the second already
\* updated once.
Users0(u) ==
    IF u = 1 THEN [username |-> "a", version |-> 1]
    ELSE IF u = 2 THEN [username |-> "b", version |-> 2]
    ELSE NoRow

\* The service with the requests of P still to arrive.
InitWith(P) ==
    /\ users = [u \in Ids |-> Users0(u)]
    /\ sessions = [u \in Ids |-> Sessions0(u)]
    /\ nextId = 3
    /\ pc = [p \in P |-> "idle"]
    /\ req = [p \in P |-> NoReq]
    /\ result = [p \in P |-> "none"]
    /\ tx = [p \in P |-> NoTx]
    /\ rowAtCheck = [p \in P |-> "none"]
    /\ nameAtCheck = [p \in P |-> "none"]
    /\ wrote = [p \in P |-> FALSE]
    /\ failedAt = [p \in P |-> "none"]

Init == InitWith(Procs)

(***************************************************************************)
(* Queries                                                                 *)
(***************************************************************************)

\* What checkVersion and userNameFind throw when their findOne fails.
findOneFailed == "BadRequestException"

\* checkVersion with its where clause lost: findOne gives the first row of the table.
checkVersionAnyRow(id) ==
    IF \A u \in Ids : users[u] = NoRow
    THEN undefined
    ELSE LET u == CHOOSE u \in Ids : users[u] # NoRow /\ \A w \in Ids : users[w] # NoRow => u <= w
         IN  [id |-> 0, username |-> "", version |-> users[u].version]

\* checkVersion(id): findOne({where: {id}, attributes: ['version']}).
checkVersion(id) ==
    IF id \in Ids /\ users[id] # NoRow
    THEN [id |-> 0, username |-> "", version |-> users[id].version]
    ELSE undefined

\* userNameFind looking the name up in the wrong column: it never finds a row.
userNameFindWrongColumn(username) == {undefined}

\* userNameFind with 'id' missing from attributes: the row it gives has no id.
userNameFindNoId(username) ==
    IF \E u \in Ids : users[u] # NoRow /\ users[u].username = username
    THEN {[id |-> 0, username |-> username, version |-> 0]}
    ELSE {undefined}

\* userNameFind(username): findOne({where: {username}, attributes: ['id', 'username']}).
\* findOne has no order: with several matching rows it gives any one of them.
userNameFind(username) ==
    IF \E u \in Ids : users[u] # NoRow /\ users[u].username = username
    THEN {[id |-> u, username |-> username, version |-> 0] :
            u \in {w \in Ids : users[w] # NoRow /\ users[w].username = username}}
    ELSE {undefined}

\* Static update with an optimistic condition nobody wrote: where {id, version}.
updateWhereVersion(u, data) == u = data.id /\ users[u].version = data.version - 1

\* The where clause of userUpdate's update: {id: data.id}.
updateWhere(u, data) == u = data.id

\* USER_REPOSITORY.update({...data, ...}, {where, returning: true}): every
\* matching row takes the data, version included; the rows are returned.
updateRows(data) ==
    [u \in Ids |->
        IF users[u] # NoRow /\ updateWhere(u, data)
        THEN [username |-> data.username, version |-> data.version]
        ELSE users[u]]

\* USER_REPOSITORY.create({...data, ...}): a new row under the next id.
createRow(data) ==
    [users EXCEPT ![nextId] = [username |-> data.username, version |-> 1]]

\* destroy without its transaction option: the row goes at once.
destroyOutsideTransaction(id) ==
    [u \in Ids |-> IF u = id THEN NoRow ELSE users[u]]

\* The committed user table right after USER_REPOSITORY.destroy({where: {id},
\* transaction}): unchanged, the delete waits in the transaction.
destroyInTransaction(id) == users

(***************************************************************************)
(* Decorator stacks: the outermost decorator runs first                    *)
(***************************************************************************)

\* @OptimisticLocking(true) on userUpdate, @OptimisticLocking(false) on userDelete.
isVersionIncrement(kind) == kind = "userUpdate"

\* The first step of a call.
FirstStep(kind) ==
    IF kind = "userCreate" THEN "CheckIsValueUnique" ELSE "OptimisticLocking"

\* What runs once OptimisticLocking has let the call through.
AfterOptimisticLocking(kind) ==
    IF kind = "userUpdate" THEN "CheckIsValueUnique" ELSE "transaction"

\* The message code given to @CheckIsValueUnique.
notUniqueCode == "user:validate:notUniqueUserName"

Requests ==
    {[kind |-> "userCreate", id |-> 0, version |-> 0, username |-> n] : n \in Names}
    \cup {[kind |-> "userUpdate", id |-> i, version |-> v, username |-> n] :
            i \in Ids, v \in 1..MaxVersion, n \in Names}
    \cup {[kind |-> "userDelete", id |-> i, version |-> v, username |-> ""] :
            i \in Ids, v \in 1..MaxVersion}

Creating == {p \in DOMAIN pc : req[p].kind = "userCreate" /\ pc[p] # "done"}

Finish(p, r) ==
    /\ pc' = [pc EXCEPT ![p] = "done"]
    /\ result' = [result EXCEPT ![p] = r]

\* A request out of R arrives. Requests are numbered in the order they arrive.
Arrive(p, R) ==
    /\ pc[p] = "idle"
    /\ \A q \in DOMAIN pc : q < p => pc[q] # "idle"
    /\ \E r \in R :
        /\ r.kind = "userCreate" => nextId + Cardinality(Creating) <= MaxRows
        /\ req' = [req EXCEPT ![p] = r]
        /\ pc' = [pc EXCEPT ![p] = FirstStep(r.kind)]
    /\ UNCHANGED <<users, sessions, nextId, result, tx, rowAtCheck, nameAtCheck, wrote, failedAt>>

\* A request arrives.
Start(p) == Arrive(p, Requests)

\* A userUpdate request arrives.
StartUpdate(p) == Arrive(p, {r \in Requests : r.kind = "userUpdate"})

\* The row as it stands against the version the caller supplied.
RowAgainst(data) ==
    IF data.id \notin Ids \/ users[data.id] = NoRow THEN "norow"
    ELSE IF users[data.id].version # data.version THEN "stale"
    ELSE "fresh"

\* OptimisticLocking(isVersionIncrement): re-read the version, compare, and
\* on a match pass the call on (with data.version advanced for an update).
\* When checkVersion throws, so does the call.
OptimisticLocking(p) ==
    /\ pc[p] = "OptimisticLocking"
    /\ \/ /\ rowAtCheck' = [rowAtCheck EXCEPT ![p] = RowAgainst(req[p])]
          /\ LET res == checkVersion(req[p].id) IN
                IF res = undefined
                THEN Finish(p, "NotFound") /\ UNCHANGED req
                ELSE IF res.version # req[p].version
                THEN Finish(p, "VersionConflict") /\ UNCHANGED req
                ELSE /\ req' = [req EXCEPT ![p].version =
                                    IF isVersionIncrement(req[p].kind) THEN @ + 1 ELSE @]
                     /\ pc' = [pc EXCEPT ![p] = AfterOptimisticLocking(req[p].kind)]
                     /\ UNCHANGED result
       \/ /\ Finish(p, findOneFailed)
          /\ UNCHANGED <<req, rowAtCheck>>
    /\ UNCHANGED <<users, sessions, nextId, tx, nameAtCheck, wrote, failedAt>>

\* Who holds the username the caller supplied.
Holders(username) == {u \in Ids : users[u] # NoRow /\ users[u].username = username}

NameAgainst(data) ==
    IF Holders(data.username) = {} THEN "free"
    ELSE IF Holders(data.username) = {data.id} THEN "own"
    ELSE IF data.id \notin Holders(data.username) THEN "taken"
    ELSE "shared"

\* CheckIsValueUnique(finder, field, code): look the value up; a row of
\* another id fails the call with the code. When the finder throws, so does
\* the call.
CheckIsValueUnique(p) ==
    /\ pc[p] = "CheckIsValueUnique"
    /\ \/ /\ nameAtCheck' = [nameAtCheck EXCEPT ![p] = NameAgainst(req[p])]
          /\ \E res \in userNameFind(req[p].username) :
                IF res # undefined /\ res.id # req[p].id
                THEN Finish(p, notUniqueCode)
                ELSE pc' = [pc EXCEPT ![p] = req[p].kind] /\ UNCHANGED result
       \/ /\ Finish(p, findOneFailed)
          /\ UNCHANGED nameAtCheck
    /\ UNCHANGED <<users, sessions, nextId, req, tx, rowAtCheck, wrote, failedAt>>

(***************************************************************************)
(* Method bodies                                                           *)
(***************************************************************************)

\* userCreate's body: hash, create; any error becomes unableToCreateUser.
userCreate(p) ==
    /\ pc[p] = "userCreate"
    /\ \/ /\ users' = createRow(req[p])
          /\ nextId' = nextId + 1
          /\ wrote' = [wrote EXCEPT ![p] = TRUE]
          /\ Finish(p, "ok")
       \/ /\ Finish(p, "user:create:unableToCreateUser")
          /\ UNCHANGED <<users, nextId, wrote>>
    /\ UNCHANGED <<sessions, req, tx, rowAtCheck, nameAtCheck, failedAt>>

\* userUpdate's body: hash, update where id, return the first returned row
\* (undefined when none matched); any error becomes unableToUpdateUser.
userUpdate(p) ==
    /\ pc[p] = "userUpdate"
    /\ \/ /\ users' = updateRows(req[p])
          /\ wrote' = [wrote EXCEPT ![p] = users[req[p].id] # NoRow]
          /\ Finish(p, "ok")
       \/ /\ Finish(p, "user:update:unableToUpdateUser")
          /\ UNCHANGED <<users, wrote>>
    /\ UNCHANGED <<sessions, nextId, req, tx, rowAtCheck, nameAtCheck, failedAt>>

\* transaction = await SEQUELIZE.transaction(). When it fails the catch block
\* calls rollback on an undefined transaction, which throws a TypeError.
userDeleteTransaction(p) ==
    /\ pc[p] = "transaction"
    /\ \/ /\ tx' = [tx EXCEPT ![p].state = "open"]
          /\ pc' = [pc EXCEPT ![p] = "deleteAllSessions"]
          /\ UNCHANGED <<result, failedAt>>
       \/ /\ failedAt' = [failedAt EXCEPT ![p] = "transaction"]
          /\ Finish(p, "TypeError")
          /\ UNCHANGED tx
    /\ UNCHANGED <<users, sessions, nextId, req, rowAtCheck, nameAtCheck, wrote>>

\* SessionService.deleteAllSessions(id, transaction): the delete of all the
\* user's sessions joins the transaction it is given.
deleteAllSessions(t) == [t EXCEPT !.sessions = TRUE]

\* await sessionService.deleteAllSessions(id, transaction). On failure the
\* catch block starts the rollback without awaiting it and throws.
userDeleteSessions(p) ==
    /\ pc[p] = "deleteAllSessions"
    /\ \/ /\ tx' = [tx EXCEPT ![p] = deleteAllSessions(@)]
          /\ pc' = [pc EXCEPT ![p] = "destroy"]
          /\ UNCHANGED <<result, failedAt>>
       \/ /\ failedAt' = [failedAt EXCEPT ![p] = "deleteAllSessions"]
          /\ tx' = [tx EXCEPT ![p].state = "rollback"]
          /\ Finish(p, "BadRequestException")
    /\ UNCHANGED <<users, sessions, nextId, req, rowAtCheck, nameAtCheck, wrote>>

\* result = await destroy({where: {id}, transaction}); transaction.commit()
\* is started, not awaited; the result is returned.
userDeleteDestroy(p) ==
    /\ pc[p] = "destroy"
    /\ \/ /\ users' = destroyInTransaction(req[p].id)
          /\ tx' = [tx EXCEPT ![p].user = TRUE, ![p].state = "commit"]
          /\ wrote' = [wrote EXCEPT ![p] = TRUE]
          /\ Finish(p, "ok")
          /\ UNCHANGED failedAt
       \/ /\ failedAt' = [failedAt EXCEPT ![p] = "destroy"]
          /\ tx' = [tx EXCEPT ![p].state = "rollback"]
          /\ Finish(p, "BadRequestException")
          /\ UNCHANGED <<users, wrote>>
    /\ UNCHANGED <<sessions, nextId, req, rowAtCheck, nameAtCheck>>

\* The commit started by userDelete completes: the buffered deletes reach
\* the tables together, or the commit fails and none does. Nobody awaits it.
CommitCompletes(p) ==
    /\ tx[p].state = "commit"
    /\ \/ /\ tx' = [tx EXCEPT ![p].state = "committed"]
          /\ sessions' = [sessions EXCEPT ![req[p].id] = IF tx[p].sessions THEN {} ELSE @]
          /\ users' = [users EXCEPT ![req[p].id] = IF tx[p].user THEN NoRow ELSE @]
          /\ UNCHANGED failedAt
       \/ /\ tx' = [tx EXCEPT ![p].state = "aborted"]
          /\ failedAt' = [failedAt EXCEPT ![p] = "commit"]
          /\ UNCHANGED <<users, sessions>>
    /\ UNCHANGED <<nextId, pc, req, result, rowAtCheck, nameAtCheck, wrote>>

\* The rollback started by the catch block completes: the buffer is dropped.
RollbackCompletes(p) ==
    /\ tx[p].state = "rollback"
    /\ tx' = [tx EXCEPT ![p].state = "aborted"]
    /\ UNCHANGED <<users, sessions, nextId, pc, req, result, rowAtCheck, nameAtCheck, wrote, failedAt>>

Next ==
    \E p \in Procs :
        \/ Start(p)
        \/ OptimisticLocking(p)
        \/ CheckIsValueUnique(p)
        \/ userCreate(p)
        \/ userUpdate(p)
        \/ userDeleteTransaction(p)
        \/ userDeleteSessions(p)
        \/ userDeleteDestroy(p)
        \/ CommitCompletes(p)
        \/ RollbackCompletes(p)

Spec == Init /\ [][Next]_vars

(***************************************************************************)
(* Updates only, with one request more in flight                           *)
(***************************************************************************)

RaceProcs == 1..(NumProcs + 1)

InitRace == InitWith(RaceProcs)

NextRace ==
    \E p \in RaceProcs :
        \/ StartUpdate(p)
        \/ OptimisticLocking(p)
        \/ CheckIsValueUnique(p)
        \/ userUpdate(p)

SpecRace == InitRace /\ [][NextRace]_vars

(***************************************************************************)
(* Properties                                                              *)
(***************************************************************************)

Done(p) == pc[p] = "done"

Locked(p) == req[p].kind \in {"userUpdate", "userDelete"}

\* C1: a userUpdate or userDelete whose version differs from the row's stored
\* version when the check reads it is rejected with the conflict error, and
\* the call writes nothing: no row update, no destroy, no transaction (so no
\* session delete).
StaleWriteRejected ==
    \A p \in DOMAIN pc :
        (Locked(p) /\ rowAtCheck[p] = "stale") =>
            /\ Done(p)
            /\ result[p] = "VersionConflict"
            /\ ~wrote[p]
            /\ tx[p] = NoTx

\* A stale userUpdate and a stale userDelete have both been answered.
StaleWriteSeen ==
    \E p, q \in DOMAIN pc :
        /\ req[p].kind = "userUpdate" /\ rowAtCheck[p] = "stale" /\ Done(p)
        /\ req[q].kind = "userDelete" /\ rowAtCheck[q] = "stale" /\ Done(q)
        /\ req[q].id = 1

\* C2: the sessions of a user and the user row leave the tables together:
\* while the row is there its sessions are all there, and once it is gone
\* they are gone, whatever step of whatever userDelete failed.
CascadeAtomic ==
    \A u \in Ids :
        IF users[u] = NoRow THEN sessions[u] = {} ELSE sessions[u] = Sessions0(u)

\* A userDelete of the user with sessions failed at destroy, after its
\* session delete, and its rollback is over; another one committed.
CascadeRolledBack ==
    \E p, q \in DOMAIN pc :
        /\ req[p].kind = "userDelete" /\ req[p].id = 1 /\ Done(p)
        /\ failedAt[p] = "destroy" /\ tx[p].sessions /\ tx[p].state = "aborted"
        /\ req[q].kind = "userDelete" /\ req[q].id = 1 /\ tx[q].state = "committed"

\* C3: a userCreate whose username a row holds when the check looks fails
\* with user:validate:notUniqueUserName and inserts nothing.
CreateTakenNameRejected ==
    \A p \in DOMAIN pc :
        (req[p].kind = "userCreate" /\ nameAtCheck[p] = "taken") =>
            /\ Done(p)
            /\ result[p] = "user:validate:notUniqueUserName"
            /\ ~wrote[p]

\* A userCreate with a taken username has been answered.
CreateTakenNameSeen ==
    \E p \in DOMAIN pc :
        req[p].kind = "userCreate" /\ nameAtCheck[p] = "taken" /\ Done(p)

\* C4: a userUpdate with the current version whose username is held by its
\* own row alone is not rejected as not unique; one whose username is held
\* by other rows only is rejected with user:validate:notUniqueUserName and
\* writes nothing.
UpdateExcludesOwnRow ==
    \A p \in DOMAIN pc :
        req[p].kind = "userUpdate" =>
            /\ nameAtCheck[p] = "own" =>
                    /\ result[p] # "user:validate:notUniqueUserName"
                    /\ pc[p] \in {"userUpdate", "done"}
            /\ nameAtCheck[p] = "taken" =>
                    /\ Done(p)
                    /\ result[p] = "user:validate:notUniqueUserName"
                    /\ ~wrote[p]

\* One userUpdate kept its own username and went through; another asked for
\* the username of a different row and has been answered.
UpdateOwnAndTakenSeen ==
    \E p, q \in DOMAIN pc :
        /\ req[p].kind = "userUpdate" /\ nameAtCheck[p] = "own"
        /\ Done(p) /\ result[p] = "ok" /\ wrote[p]
        /\ req[q].kind = "userUpdate" /\ nameAtCheck[q] = "taken" /\ Done(q)

\* C5: a call that met a stale version ends with the conflict error, and no
\* call for an id without a row ends with the same error.
ConflictIsNotNotFound ==
    \A p, q \in DOMAIN pc :
        (Locked(p) /\ Locked(q) /\ Done(p) /\ Done(q)
            /\ rowAtCheck[p] = "stale" /\ rowAtCheck[q] = "norow") =>
                /\ result[p] = "VersionConflict"
                /\ result[q] # result[p]

\* A stale call and a call for an id without a row have both been answered.
ConflictAndNotFoundSeen ==
    \E p, q \in DOMAIN pc :
        /\ Locked(p) /\ Done(p) /\ rowAtCheck[p] = "stale"
        /\ req[q].kind = "userDelete" /\ Done(q) /\ rowAtCheck[q] = "norow"

\* C6: the write of userUpdate does not look at the stored version again:
\* whenever the update of a call that passed the check completes on an
\* existing row, the row takes that call's data and the call succeeds,
\* whatever was written since the check.
WriteIgnoresStoredVersion ==
    [][\A p \in DOMAIN pc :
        (pc[p] = "userUpdate" /\ pc'[p] = "done" /\ result'[p] = "ok"
            /\ users[req[p].id] # NoRow) =>
                /\ users'[req[p].id] =
                        [username |-> req[p].username, version |-> req[p].version]
                /\ wrote'[p]]_vars

\* Two userUpdate calls for one id supplied the same version, both passed
\* the check, both wrote and both succeeded; the row holds one's data only.
LostUpdate ==
    \E p, q \in DOMAIN pc :
        /\ p # q
        /\ req[p].kind = "userUpdate" /\ req[q].kind = "userUpdate"
        /\ req[p].id = req[q].id /\ req[p].version = req[q].version
        /\ rowAtCheck[p] = "fresh" /\ rowAtCheck[q] = "fresh"
        /\ Done(p) /\ Done(q) /\ result[p] = "ok" /\ result[q] = "ok"
        /\ wrote[p] /\ wrote[q]
        /\ req[p].username # req[q].username
        /\ users[req[p].id].username = req[q].username

\* C7: a userDelete that failed at starting the transaction, deleting the
\* sessions or deleting the user row has answered with BadRequestException,
\* and by then its transaction (if one was started) is rolled back.
DeleteFailureIsBadRequest ==
    \A p \in DOMAIN pc :
        (req[p].kind = "userDelete" /\ Done(p)
            /\ failedAt[p] \in {"transaction", "deleteAllSessions", "destroy"}) =>
                /\ result[p] = "BadRequestException"
                /\ tx[p].state \in {"none", "aborted"}

\* C8: no two user rows have the same username.
UniqueUsernames ==
    \A u, w \in Ids :
        (u # w /\ users[u] # NoRow /\ users[w] # NoRow) =>
            users[u].username # users[w].username

\* C9: a userDelete that returned its result has committed its transaction
\* (so a failed commit is never answered with a result).
ReturnedMeansCommitted ==
    \A p \in DOMAIN pc :
        (req[p].kind = "userDelete" /\ Done(p) /\ result[p] = "ok") =>
            tx[p].state = "committed"

\* C10: once a userUpdate that supplied version v has succeeded on a row,
\* the row's stored version is never v again (data.version is v + 1 by then).
VersionValidatesOnce ==
    \A p \in DOMAIN pc :
        (req[p].kind = "userUpdate" /\ Done(p) /\ result[p] = "ok" /\ wrote[p]
            /\ users[req[p].id] # NoRow) =>
                users[req[p].id].version # req[p].version - 1

====
